---- MODULE Spec2Model ----
(***************************************************************************)
(* bpblog: a static blog generator (src/build.ts) and its dev-mode watch   *)
(* loop (src/dev.ts).                                                      *)
(*                                                                         *)
(* Strings are modelled as sequences of tokens: a filename is a sequence   *)
(* such as <<"hello", ".md">>, a template a sequence such as               *)
(* <<"<h1>", "{{title}}", "</h1>">>.  String.prototype.replace(s, v) with  *)
(* a string pattern replaces the FIRST occurrence of s only.               *)
(***************************************************************************)
EXTENDS Integers, Sequences, FiniteSets, TLC

VARIABLES
    \* ---- direct calls of the exported functions (unit level) ----
    call,           \* the call under way: function name and arguments
    ret,            \* its return value / written file, or NoValue
    \* ---- the process (build entry point or dev entry point) ----
    mode,           \* "build" (build.ts is the main module) or "dev" (dev.ts)
    postsDir,       \* the files present in posts/
    out,            \* docs/: output file name -> content
    pass,           \* build() passes: pass[0] is the entry point's own call,
                    \* pass[i] the one started by rebuild cycle i
    writes,         \* fs.writeFile calls issued and not yet completed
    cycle,          \* debounce timer callbacks (rebuild cycles), by timer id
    timers,         \* armed, not yet fired timers (ids)
    rebuildTimeout, \* dev.ts: let rebuildTimeout (0 is null)
    isRebuilding,   \* dev.ts: let isRebuilding
    serverProcess,  \* dev.ts: let serverProcess ("null", "running", "killed")
    watching,       \* the three chokidar watchers have been created
    ready,          \* the watchers that have emitted "ready" (initial scan done)
    exitCode,       \* NoExit while the process runs, then its exit code
    hist            \* history of the run (counters and last request)

vars == <<call, ret, mode, postsDir, out, pass, writes, cycle, timers,
          rebuildTimeout, isRebuilding, serverProcess, watching, ready, exitCode,
          hist>>

procVars == <<mode, postsDir, out, pass, writes, cycle, timers,
              rebuildTimeout, isRebuilding, serverProcess, watching, ready, exitCode,
          hist>>

NoValue == [done |-> FALSE]

Returned(v) == [done |-> TRUE, value |-> v]
NoExit == -1

(***************************************************************************)
(* Bounds                                                                  *)
(***************************************************************************)
MaxPosts == 3       \* longest list handed to filterPostsForIndex
MaxDate == 3        \* dates are timestamps 1..MaxDate
MaxTemplate == 3    \* longest template (in tokens) handed to buildPost
MaxEvents == 2      \* watcher events delivered in one dev session
MaxName == 3        \* longest filename (in tokens) handed to parsePost

(***************************************************************************)
(* Sequences helpers                                                       *)
(***************************************************************************)
Range(s) == {s[i] : i \in 1..Len(s)}

SeqsUpTo(S, n) == UNION {[1..k -> S] : k \in 0..n}

Count(s, x) == Cardinality({i \in 1..Len(s) : s[i] = x})

\* index of the first occurrence of x in s, 0 when there is none
FirstIndex(s, x) ==
    IF \E i \in 1..Len(s) : s[i] = x
    THEN CHOOSE i \in 1..Len(s) : s[i] = x /\ \A j \in 1..(i - 1) : s[j] # x
    ELSE 0

\* String.prototype.replace(pattern: string, replacement): first occurrence only
Replace(s, x, v) ==
    LET k == FirstIndex(s, x)
    IN  [i \in 1..Len(s) |-> IF i = k THEN v ELSE s[i]]

\* String.prototype.replace(pattern, "") on a token sequence: drop the first x
RemoveFirst(s, x) ==
    LET k == FirstIndex(s, x)
    IN  IF k = 0 THEN s
        ELSE [i \in 1..(Len(s) - 1) |-> IF i < k THEN s[i] ELSE s[i + 1]]

EndsWith(s, x) == Len(s) > 0 /\ s[Len(s)] = x

(***************************************************************************)
(* Posts (build.ts: interface PostMeta, interface Post)                    *)
(***************************************************************************)
\* values the YAML frontmatter can give meta.draft; "undefined" is an absent field
DraftValues == {"true", "false", "undefined"}

\* JavaScript truthiness of a meta.draft value
Truthy(v) == v = "true"

Slugs == {<<"old">>, <<"new">>}

Dates == 1..MaxDate

\* an absent meta.date (undefined); present dates are 1..MaxDate
NoDate == 0

\* faulty variant: an absent date is formatted like any other
formatAnyDate(date) == "January " \o ToString(date) \o ", 2026"

\* new Date(date).toLocaleDateString("en-US", {year, month: "long", day});
\* new Date(undefined) is an invalid date, which formats as "Invalid Date"
formatDate(date) ==
    IF date = NoDate THEN "Invalid Date"
    ELSE "January " \o ToString(date) \o ", 2026"

MkPost(slug, title, date, draft, html) ==
    [slug |-> slug, meta |-> [title |-> title, date |-> date, draft |-> draft],
     html |-> html]

\* the posts the unit-level calls are made with
PostPool == {MkPost(s, "T", d, f, "<p>body</p>") : s \in Slugs, d \in Dates, f \in DraftValues}

(***************************************************************************)
(* Array.prototype.sort((a, b) => getTime(b.date) - getTime(a.date)):      *)
(* a stable sort, newest first.  Insert(p, s) puts p after every element   *)
(* of the sorted s that the comparator does not order after it.            *)
(***************************************************************************)
\* faulty variant: the comparator with its operands swapped (oldest first)
CompareAsc(a, b) == a.meta.date - b.meta.date

\* new Date(undefined).getTime() is NaN, and a comparator result of NaN
\* counts as 0
CompareDesc(a, b) ==
    IF a.meta.date = NoDate \/ b.meta.date = NoDate THEN 0
    ELSE b.meta.date - a.meta.date

RECURSIVE Insert(_, _)
Insert(p, s) ==
    IF s = <<>> THEN <<p>>
    ELSE IF CompareDesc(Head(s), p) <= 0
         THEN <<Head(s)>> \o Insert(p, Tail(s))
         ELSE <<p>> \o s

RECURSIVE SortByDateDesc(_)
SortByDateDesc(s) ==
    IF s = <<>> THEN <<>>
    ELSE Insert(s[Len(s)], SortByDateDesc(SubSeq(s, 1, Len(s) - 1)))

\* faulty variant: only an explicit draft: false counts as published
ExplicitlyPublished(post) == post.meta.draft = "false"

NotDraft(post) == ~Truthy(post.meta.draft)

filterPostsForIndex(posts) == SortByDateDesc(SelectSeq(posts, NotDraft))

(***************************************************************************)
(* Templates                                                               *)
(***************************************************************************)
Placeholders == {"{{title}}", "{{date}}", "{{content}}"}

TemplateTokens == Placeholders \cup {"<hr>"}

\* buildPost: the three chained template.replace calls
RenderPost(post, template) ==
    Replace(Replace(Replace(template, "{{title}}", post.meta.title),
                    "{{date}}", formatDate(post.meta.date)),
            "{{content}}", post.html)

\* the value buildPost substitutes for a placeholder
ValueFor(post, ph) ==
    CASE ph = "{{title}}" -> post.meta.title
      [] ph = "{{date}}" -> formatDate(post.meta.date)
      [] ph = "{{content}}" -> post.html

OutputName(slug) == slug \o <<".html">>

\* buildPost(post, template): the file it writes into docs/
buildPost(post, template) ==
    [file |-> OutputName(post.slug), html |-> RenderPost(post, template)]

\* templates/index.html, as tokens
IndexTemplate == <<[text |-> "<main>"], [text |-> "{{posts}}"], [text |-> "</main>"]>>

\* buildIndex: the <article> fragment of one post
Article(post) ==
    [href |-> OutputName(post.slug), title |-> post.meta.title,
     datetime |-> post.meta.date, time |-> formatDate(post.meta.date)]

\* buildIndex: posts.map(...).join("\n") substituted for {{posts}}
RenderIndex(posts, template) ==
    Replace(template, [text |-> "{{posts}}"],
            [list |-> [i \in 1..Len(posts) |-> Article(posts[i])]])

\* the <article> fragments of an index page, in document order
ArticlesOf(html) ==
    IF \E i \in 1..Len(html) : "list" \in DOMAIN html[i]
    THEN html[CHOOSE i \in 1..Len(html) : "list" \in DOMAIN html[i]].list
    ELSE <<>>

(***************************************************************************)
(* The file system: posts/ holds some of these files.  A file's content is *)
(* its frontmatter data and its Markdown body.                             *)
(***************************************************************************)
HelloMd == <<"hello", ".md">>
WipMd == <<"wip", ".md">>
NotesTxt == <<"notes", ".txt">>

FileUniverse == {HelloMd, WipMd, NotesTxt}

\* a post without title and date, and a post named index.md
UntitledMd == <<"untitled", ".md">>
IndexMd == <<"index", ".md">>

\* the files the directory of a one-shot build is drawn from
BuildUniverse == FileUniverse \cup {UntitledMd, IndexMd}

ContentOf(file) ==
    CASE file = HelloMd ->
            [data |-> [title |-> "Hello World", date |-> 1, draft |-> "undefined"], markdown |-> "hello"]
      [] file = WipMd ->
            [data |-> [title |-> "L Combinator", date |-> 3, draft |-> "true"], markdown |-> "wip"]
      [] file = UntitledMd ->
            [data |-> [title |-> "undefined", date |-> NoDate, draft |-> "undefined"], markdown |-> "untitled"]
      [] file = IndexMd ->
            [data |-> [title |-> "About", date |-> 2, draft |-> "undefined"], markdown |-> "about"]
      [] OTHER ->
            [data |-> [title |-> "undefined", date |-> 1, draft |-> "undefined"], markdown |-> "notes"]

\* marked(markdown)
marked(markdown) == "<p>" \o markdown \o "</p>"

Null == [null |-> TRUE]

IsPost(p) == "slug" \in DOMAIN p

\* faulty variant: parsePost without its extension check
parseAnyFile(filename, fileContent) ==
    [slug |-> RemoveFirst(filename, ".md"),
     meta |-> fileContent.data,
     html |-> marked(fileContent.markdown)]

\* parsePost(filename, fileContent): null unless the name ends in .md
parsePost(filename, fileContent) ==
    IF ~EndsWith(filename, ".md") THEN Null
    ELSE [slug |-> RemoveFirst(filename, ".md"),
          meta |-> fileContent.data,
          html |-> marked(fileContent.markdown)]

\* getPosts, given the result of fs.readdir: parse each file, keep the posts, sort
getPosts(files) ==
    SortByDateDesc(SelectSeq([k \in 1..Len(files) |-> parsePost(files[k], ContentOf(files[k]))],
                             IsPost))

\* the orders in which fs.readdir can list a directory
Listings(dir) ==
    {l \in [1..Cardinality(dir) -> dir] : \A a, b \in DOMAIN l : a # b => l[a] # l[b]}

\* templates/post.html, as tokens
PostTemplate == <<"<h1>", "{{title}}", "{{date}}", "{{content}}">>

IndexHtml == <<"index", ".html">>
StylesCss == <<"styles", ".css">>

\* faulty variant: drafts are left out of the build, not only of the index
PublishedOnly(allPosts) == SelectSeq(allPosts, NotDraft)

\* build(): the posts handed to buildPost (all of them, drafts included)
PostsToBuild(allPosts) == allPosts

\* build(): the posts handed to buildIndex
PostsToIndex(allPosts) == filterPostsForIndex(allPosts)

(***************************************************************************)
(* Unit level: one direct call of an exported function, its arguments      *)
(* drawn from bounded sets (test/posts.test.ts calls them this way).       *)
(***************************************************************************)
FilterCalls ==
    {[fn |-> "filterPostsForIndex", posts |-> ps] : ps \in SeqsUpTo(PostPool, MaxPosts)}

BuildPostCalls ==
    {[fn |-> "buildPost", post |-> MkPost(<<"test-post">>, "Test Title", d, "false", "<p>Content</p>"),
      template |-> t] : d \in Dates, t \in SeqsUpTo(TemplateTokens, MaxTemplate)}

\* the pieces filenames are made of
NameTokens == {"post", ".md", ".txt"}

ParsePostCalls ==
    {[fn |-> "parsePost", filename |-> f, content |-> ContentOf(c)] :
        f \in SeqsUpTo(NameTokens, MaxName) \ {<<>>}, c \in {HelloMd, UntitledMd}}

\* getPosts over a posts/ directory, given the listing fs.readdir returns
GetPostsCalls ==
    {[fn |-> "getPosts", files |-> l] : l \in UNION {Listings(d) : d \in SUBSET FileUniverse}}

ProcIdle ==
    /\ mode = "unit"
    /\ postsDir = {}
    /\ out = <<>>
    /\ pass = <<>>
    /\ writes = {}
    /\ cycle = <<>>
    /\ timers = {}
    /\ rebuildTimeout = 0
    /\ isRebuilding = FALSE
    /\ serverProcess = "null"
    /\ watching = FALSE
    /\ ready = {}
    /\ exitCode = NoExit
    /\ hist = <<>>

InitUnit ==
    /\ call \in FilterCalls \cup BuildPostCalls \cup ParsePostCalls \cup GetPostsCalls
    /\ ret = NoValue
    /\ ProcIdle

CallFilterPostsForIndex ==
    /\ call.fn = "filterPostsForIndex"
    /\ ~ret.done
    /\ ret' = Returned(filterPostsForIndex(call.posts))
    /\ UNCHANGED <<call, procVars>>

CallBuildPost ==
    /\ call.fn = "buildPost"
    /\ ~ret.done
    /\ ret' = Returned(buildPost(call.post, call.template))
    /\ UNCHANGED <<call, procVars>>

CallParsePost ==
    /\ call.fn = "parsePost"
    /\ ~ret.done
    /\ ret' = Returned(parsePost(call.filename, call.content))
    /\ UNCHANGED <<call, procVars>>

CallGetPosts ==
    /\ call.fn = "getPosts"
    /\ ~ret.done
    /\ ret' = Returned(getPosts(call.files))
    /\ UNCHANGED <<call, procVars>>

NextUnit == CallFilterPostsForIndex \/ CallBuildPost \/ CallParsePost \/ CallGetPosts

SpecUnit == InitUnit /\ [][NextUnit]_vars

Filtered == call.fn = "filterPostsForIndex" /\ ret.done

Built == call.fn = "buildPost" /\ ret.done

Parsed == call.fn = "parsePost" /\ ret.done

PostFiles(files) == {f \in files : EndsWith(f, ".md")}

GotPosts == call.fn = "getPosts" /\ ret.done

(***************************************************************************)
(* The process.  mode = "build": build.ts run as the main module.          *)
(* mode = "dev": dev.ts (startDevMode).  Every await is a point where      *)
(* other callbacks may run; promise continuations run in the same step as  *)
(* the completion that settles the promise.                                *)
(***************************************************************************)
PassIds == 0..MaxEvents
CycleIds == 1..MaxEvents

NoFrame == [files |-> {}, allPosts |-> <<>>]

IdlePass == [pc |-> "idle", files |-> {}, allPosts |-> <<>>]
StartedPass == [pc |-> "setup", files |-> {}, allPosts |-> <<>>]
NoRequest == [file |-> <<>>, ts |-> FALSE]

NoCycle ==
    [pc |-> "none", req |-> NoRequest, burstStart |-> FALSE,
     busyAtFire |-> FALSE, busyAtRegen |-> FALSE, tscFailed |-> FALSE]

\* cycle c has run to its end (its closure is dropped)
Finish(c, outcome) == [c EXCEPT !.pc = outcome, !.req.file = <<>>]

\* hist.settled: the build() pass that settled last, how, the fault it met and
\* what its copyStyles found ("none": copyStyles was not reached)
NothingSettled == [pass |-> -1, how |-> "none", fault |-> "none", styles |-> "none"]

Running(i) == pass[i].pc \in {"setup", "getPosts", "posts", "index", "styles"}
Ended(i) == pass[i].pc \in {"resolved", "rejected"}

Put(o, file, html) == (file :> html) @@ o

\* the directories a one-shot build starts from.  With an absent date among
\* three or more posts the sort comparator is inconsistent and the order of
\* the result is left to the implementation; such directories are left out.
BuildDirs ==
    {dir \in SUBSET BuildUniverse :
        /\ NotesTxt \in dir
        /\ UntitledMd \in dir => Cardinality({f \in dir : EndsWith(f, ".md")}) <= 2}

Init ==
    /\ call = [fn |-> "none"]
    /\ ret = NoValue
    /\ mode \in {"build", "dev"}
    /\ postsDir \in IF mode = "build" THEN BuildDirs ELSE {FileUniverse}
    /\ out = <<>>
    /\ pass = [i \in PassIds |-> IF i = 0 THEN StartedPass ELSE IdlePass]
    /\ writes = {}
    /\ cycle = [c \in CycleIds |-> NoCycle]
    /\ timers = {}
    /\ rebuildTimeout = 0
    /\ isRebuilding = FALSE
    /\ serverProcess = "null"
    /\ watching = FALSE
    /\ ready = {}
    /\ exitCode = NoExit
    /\ hist = [events |-> 0, calls |-> 0, spawned |-> 0, settled |-> NothingSettled]

\* build.ts entry: build().catch(console.error) -- the exit code once the
\* event loop has drained, given how build() settled
MainExitCode(settled) == 0

\* faulty variant: the catch of the initial build logs and falls through
AfterInitialBuildFallsThrough(settled) == [exit |-> NoExit, startServer |-> TRUE]

\* dev.ts startDevMode: what follows the initial build, given how it settled
AfterInitialBuild(settled) ==
    IF settled = "resolved"
    THEN [exit |-> NoExit, startServer |-> TRUE]
    ELSE [exit |-> 1, startServer |-> FALSE]

\* faulty variant: the flag is cleared after the await, not in a finally
FlagClearedOnSuccess(settled) == settled # "resolved"

\* regenerateSite: finally { isRebuilding = false }
FlagAfterBuild(settled) == FALSE

\* faulty variant: the catch of regenerateSite gives up
ExitOnRebuildFailure(settled) == IF settled = "rejected" THEN 1 ELSE NoExit

\* regenerateSite: catch (error) { console.error(...) } -- the process goes on
ExitAfterRebuild(settled) == NoExit

\* The code that awaits pass i runs when build() settles ("no": not settled).
Continue(i, settled) ==
    IF settled = "no" \/ (i = 0 /\ mode = "build")
    THEN UNCHANGED <<cycle, isRebuilding, serverProcess, watching, exitCode>>
    ELSE IF i = 0
    THEN \* startDevMode: process.exit(1), or startServer() and the watchers
         LET next == AfterInitialBuild(settled)
         IN  /\ exitCode' = next.exit
             /\ serverProcess' = IF next.startServer THEN "running" ELSE serverProcess
             /\ watching' = next.startServer
             /\ UNCHANGED <<cycle, isRebuilding>>
    ELSE \* regenerateSite: catch logs, finally clears the flag
         /\ isRebuilding' = FlagAfterBuild(settled)
         /\ exitCode' = ExitAfterRebuild(settled)
         /\ cycle' = [cycle EXCEPT ![i] = Finish(@, IF settled = "resolved" THEN "ok" ELSE "buildFailed")]
         /\ UNCHANGED <<serverProcess, watching>>

\* one step of pass i: its new position, the fault it met, and its locals
\* (files, allPosts), dropped with the call frame once build() has settled
StepWith(i, pc, fault, styles, frame, ws, o) ==
    /\ pass' = [pass EXCEPT ![i] = IF pc \in {"resolved", "rejected"}
                                   THEN [pc |-> pc, files |-> {}, allPosts |-> <<>>]
                                   ELSE [pc |-> pc, files |-> frame.files,
                                         allPosts |-> frame.allPosts]]
    /\ hist' = IF pc \in {"resolved", "rejected"}
               THEN [hist EXCEPT !.settled = [pass |-> i, how |-> pc, fault |-> fault,
                                              styles |-> styles],
                                 !.spawned = IF i = 0 /\ mode = "dev"
                                                /\ AfterInitialBuild(pc).startServer
                                             THEN @ + 1 ELSE @]
               ELSE hist
    /\ writes' = ws
    /\ out' = o
    /\ Continue(i, IF pc \in {"resolved", "rejected"} THEN pc ELSE "no")
    /\ UNCHANGED <<call, ret, mode, postsDir, timers, rebuildTimeout, ready>>

\* a step of pass i before copyStyles
Step(i, pc, fault, frame, ws, o) == StepWith(i, pc, fault, "none", frame, ws, o)

\* build(): fs.mkdir and the two readTemplate calls
BuildSetup(i) ==
    /\ exitCode = NoExit
    /\ pass[i].pc = "setup"
    /\ \E fault \in {"none", "mkdir", "template"} :
          IF fault = "none"
          THEN Step(i, "getPosts", "none", NoFrame, writes, out)
          ELSE Step(i, "rejected", fault, NoFrame, writes, out)

\* the text of a file of the output directory, token by token
Written(html) == [t \in 1..Len(html) |-> [text |-> html[t]]]

\* the fs.writeFile issued by buildPost for posts[k]
PostWrite(i, posts, k) ==
    LET f == buildPost(posts[k], PostTemplate)
    IN  [p |-> i, k |-> k, file |-> f.file, html |-> Written(f.html)]

\* the fs.writeFile issued by buildIndex
IndexWrite(i, allPosts) ==
    [p |-> i, k |-> 0, file |-> IndexHtml,
     html |-> RenderIndex(PostsToIndex(allPosts), IndexTemplate)]

\* faulty variant: the failure of getPosts is logged and build() goes on to
\* copyStyles
GetPostsSwallowed(fault) == "styles"

\* build(): await getPosts() is not inside a try, so build() rejects there
GetPostsThrows(fault) == "rejected"

\* build(): getPosts fails
BuildGetPostsFails(i) ==
    /\ exitCode = NoExit
    /\ pass[i].pc = "getPosts"
    /\ \E fault \in {"readdir"}
                    \cup (IF postsDir # {} THEN {"readFile"} ELSE {})
                    \cup (IF \E f \in postsDir : EndsWith(f, ".md") THEN {"parse"} ELSE {}) :
          Step(i, GetPostsThrows(fault), fault, NoFrame, writes, out)

\* build(): getPosts returns; the per-post writes are issued together
\* (Promise.all), or the index write at once when there is no post
BuildGetPosts(i) ==
    /\ exitCode = NoExit
    /\ pass[i].pc = "getPosts"
    /\ \E files \in Listings(postsDir) :
          LET allPosts == getPosts(files)
              posts == PostsToBuild(allPosts)
              frame == [files |-> postsDir, allPosts |-> allPosts]
          IN  IF posts = <<>>
              THEN Step(i, "index", "none", frame,
                        writes \cup {IndexWrite(i, allPosts)}, out)
              ELSE Step(i, "posts", "none", frame,
                        writes \cup {PostWrite(i, posts, k) : k \in 1..Len(posts)}, out)

\* faulty variant: the first page written lets build() go on (Promise.race)
FirstResolved(rest, i) == TRUE

\* Promise.all resolves once every buildPost promise of pass i has resolved
AllResolved(rest, i) == ~\E v \in rest : v.p = i

\* a per-post write completes while Promise.all is pending
PostWriteDone(w, ok) ==
    LET i == w.p
        rest == writes \ {w}
    IN  /\ exitCode = NoExit
        /\ w \in writes
        /\ w.k > 0
        /\ pass[i].pc = "posts"
        /\ IF ~ok
           THEN Step(i, "rejected", "writePost", pass[i], rest, out)
           ELSE IF ~AllResolved(rest, i)
           THEN Step(i, "posts", "none", pass[i], rest, Put(out, w.file, w.html))
           ELSE Step(i, "index", "none", pass[i],
                     rest \cup {IndexWrite(i, pass[i].allPosts)}, Put(out, w.file, w.html))

\* a per-post write completes after Promise.all has already rejected
LateWriteDone(w, ok) ==
    /\ exitCode = NoExit
    /\ w \in writes
    /\ w.k > 0
    /\ pass[w.p].pc = "rejected"
    /\ writes' = writes \ {w}
    /\ out' = IF ok THEN Put(out, w.file, w.html) ELSE out
    /\ UNCHANGED <<call, ret, mode, postsDir, pass, cycle, timers, rebuildTimeout,
                   isRebuilding, serverProcess, watching, ready, exitCode, hist>>

\* the write of index.html completes
IndexWriteDone(w, ok) ==
    LET i == w.p
        rest == writes \ {w}
    IN  /\ exitCode = NoExit
        /\ w \in writes
        /\ w.k = 0
        /\ pass[i].pc = "index"
        /\ IF ok
           THEN Step(i, "styles", "none", pass[i], rest, Put(out, w.file, w.html))
           ELSE Step(i, "rejected", "writeIndex", pass[i], rest, out)

\* copyStyles: try { read styles.css; write it } catch { } -- every failure
\* is swallowed, so build() resolves in each case
\* faulty variant: copyStyles without its try/catch
CopyStylesThrows(outcome) == IF outcome = "copied" THEN "resolved" ELSE "rejected"

\* how build() settles after copyStyles, its last step
CopyStylesSettles(outcome) == "resolved"

BuildCopyStyles(i) ==
    /\ exitCode = NoExit
    /\ pass[i].pc = "styles"
    /\ \E outcome \in {"absent", "copied", "writeFailed"} :
          StepWith(i, CopyStylesSettles(outcome),
               IF outcome = "writeFailed" THEN "writeStyles" ELSE "none",
               outcome, pass[i], writes,
               IF outcome = "copied" THEN Put(out, StylesCss, Written(<<"css">>)) ELSE out)

\* build.ts run as main: the process ends when nothing is left to do
ProcessExit ==
    /\ mode = "build"
    /\ exitCode = NoExit
    /\ Ended(0)
    /\ writes = {}
    /\ exitCode' = MainExitCode(pass[0].pc)
    /\ UNCHANGED <<call, ret, mode, postsDir, out, pass, writes, cycle, timers,
                   rebuildTimeout, isRebuilding, serverProcess, watching, ready, hist>>

(***************************************************************************)
(* dev.ts: the watch loop                                                  *)
(***************************************************************************)
BuildTs == <<"src/build", ".ts">>
PostHtml == <<"templates/post", ".html">>

\* faulty variant: the previous timer is left armed
KeepTimeout(armed, handle) == armed

\* clearTimeout(handle): the timer is no longer armed (no effect once fired)
ClearTimeout(armed, handle) == armed \ {handle}

\* scheduleRebuild(filePath, needsTypeScriptRecompile)
ScheduleRebuild(filePath, needsTypeScriptRecompile) ==
    LET id == hist.calls + 1
        kept == IF rebuildTimeout # 0 THEN ClearTimeout(timers, rebuildTimeout) ELSE timers
    IN  /\ timers' = kept \cup {id}
        /\ rebuildTimeout' = id
        /\ cycle' = [c \in CycleIds |->
                        IF c = id
                        THEN [NoCycle EXCEPT !.pc = "timer",
                                             !.req = [file |-> filePath,
                                                      ts |-> needsTypeScriptRecompile],
                                             !.burstStart = (timers = {})]
                        ELSE IF c \in timers \ kept
                        THEN Finish(cycle[c], "cancelled")
                        ELSE cycle[c]]
        /\ hist' = [hist EXCEPT !.calls = id, !.events = @ + 1]

CanObserve ==
    /\ mode = "dev"
    /\ exitCode = NoExit
    /\ watching
    /\ hist.events < MaxEvents

\* the three watchers startDevMode creates
Watchers == {"src", "posts", "templates"}

\* files of src/ and templates/ that events are reported for
SrcFiles == {BuildTs, <<"src/data", ".json">>}
TemplateFiles == {PostHtml, <<"templates/styles", ".css">>, <<"templates/notes", ".txt">>}

EventKinds == {"change", "add", "unlink"}

\* faulty variant: whole directories are watched, whatever the extension
WatchedAll(w, file) == TRUE

\* the glob each watcher is created with: src/**/*.ts, posts/**/*.md,
\* templates/**/*.{html,css}
Watched(w, file) ==
    CASE w = "src" -> EndsWith(file, ".ts")
      [] w = "posts" -> EndsWith(file, ".md")
      [] w = "templates" -> EndsWith(file, ".html") \/ EndsWith(file, ".css")

\* the events each watcher has a handler attached for
Handled(w, kind) == kind = "change" \/ w = "posts"

\* the watchers' option ignoreInitial
IgnoreInitial == TRUE

\* the "add" events a watcher emits for the files its initial scan finds
InitialAdds(w) ==
    IF IgnoreInitial THEN {}
    ELSE CASE w = "src" -> {f \in SrcFiles : Watched(w, f)}
           [] w = "posts" -> {f \in postsDir : Watched(w, f)}
           [] w = "templates" -> {f \in TemplateFiles : Watched(w, f)}

\* watcher w reports an event of the given kind for file: its handler, when
\* it has one for the kind and the file matches its glob, calls scheduleRebuild
Deliver(w, kind, file) ==
    IF Watched(w, file) /\ Handled(w, kind)
    THEN ScheduleRebuild(file, w = "src")
    ELSE /\ hist' = [hist EXCEPT !.events = @ + 1]
         /\ UNCHANGED <<cycle, timers, rebuildTimeout>>

\* watcher w completes its initial scan and emits "ready"; the "add" events
\* of the scan, if it emits any, reach the handlers attached at creation
\* (calls made for several files coalesce into the last one)
WatcherReady(w) ==
    /\ mode = "dev"
    /\ exitCode = NoExit
    /\ watching
    /\ w \notin ready
    /\ ready' = ready \cup {w}
    /\ IF InitialAdds(w) # {} /\ Handled(w, "add") /\ hist.events < MaxEvents
       THEN \E f \in InitialAdds(w) : ScheduleRebuild(f, w = "src")
       ELSE UNCHANGED <<cycle, timers, rebuildTimeout, hist>>
    /\ UNCHANGED <<call, ret, mode, postsDir, out, pass, writes, isRebuilding,
                   serverProcess, watching, exitCode>>

\* a file of src/ is edited, added or removed
SrcEvent(kind, file) ==
    /\ CanObserve
    /\ Deliver("src", kind, file)
    /\ UNCHANGED <<call, ret, mode, postsDir, out, pass, writes, isRebuilding,
                   serverProcess, watching, ready, exitCode>>

\* a file of templates/ is edited, added or removed
TemplateEvent(kind, file) ==
    /\ CanObserve
    /\ Deliver("templates", kind, file)
    /\ UNCHANGED <<call, ret, mode, postsDir, out, pass, writes, isRebuilding,
                   serverProcess, watching, ready, exitCode>>

\* a file of posts/ is edited, added or removed
PostEvent(kind, file) ==
    /\ CanObserve
    /\ \/ kind = "change" /\ file \in postsDir /\ postsDir' = postsDir
       \/ kind = "add" /\ file \notin postsDir /\ postsDir' = postsDir \cup {file}
       \/ kind = "unlink" /\ file \in postsDir /\ postsDir' = postsDir \ {file}
    /\ Deliver("posts", kind, file)
    /\ UNCHANGED <<call, ret, mode, out, pass, writes, isRebuilding,
                   serverProcess, watching, ready, exitCode>>

\* faulty variant: regenerateSite without its guard
NoGuard == FALSE

\* regenerateSite's guard
BuildInProgress == isRebuilding

\* regenerateSite() called by cycle id, up to its await build()
RegenerateSite(id, c) ==
    IF BuildInProgress
    THEN /\ cycle' = [cycle EXCEPT ![id] = Finish([c EXCEPT !.busyAtRegen = isRebuilding], "skipped")]
         /\ UNCHANGED <<isRebuilding, pass>>
    ELSE /\ cycle' = [cycle EXCEPT ![id] = [c EXCEPT !.pc = "build", !.busyAtRegen = isRebuilding]]
         /\ isRebuilding' = TRUE
         /\ pass' = [pass EXCEPT ![id] = StartedPass]

\* the debounce timer fires: the callback runs up to its first await
TimerFire(id) ==
    /\ exitCode = NoExit
    /\ id \in timers
    /\ timers' = timers \ {id}
    /\ LET c == [cycle[id] EXCEPT !.busyAtFire = isRebuilding]
       IN  IF c.req.ts
           THEN /\ cycle' = [cycle EXCEPT ![id] = [c EXCEPT !.pc = "tsc"]]
                /\ UNCHANGED <<isRebuilding, pass>>
           ELSE RegenerateSite(id, c)
    /\ UNCHANGED <<call, ret, mode, postsDir, out, writes, rebuildTimeout,
                   serverProcess, watching, ready, exitCode, hist>>

\* faulty variant: the failure of tsc is logged and the callback goes on
RegenerateAnyway(ok) == "regenerate"

\* the timer callback's try block: await recompileTypeScript() throws on
\* failure, so the await regenerateSite() after it is not reached
AfterRecompile(ok) == IF ok THEN "regenerate" ELSE "caught"

\* recompileTypeScript: pnpm exec tsc ends; on failure the callback's catch
\* logs and regenerateSite is not called
TscDone(id, ok) ==
    /\ exitCode = NoExit
    /\ cycle[id].pc = "tsc"
    /\ LET c == [cycle[id] EXCEPT !.tscFailed = ~ok]
       IN  IF AfterRecompile(ok) = "regenerate"
           THEN RegenerateSite(id, c)
           ELSE /\ cycle' = [cycle EXCEPT ![id] = Finish(c, "tscFailed")]
                /\ UNCHANGED <<isRebuilding, pass>>
    /\ UNCHANGED <<call, ret, mode, postsDir, out, writes, timers, rebuildTimeout,
                   serverProcess, watching, ready, exitCode, hist>>

\* the preview server's "error" event (startServer's handler): it is logged
ServerError ==
    /\ mode = "dev"
    /\ exitCode = NoExit
    /\ serverProcess = "running"
    /\ UNCHANGED vars

\* faulty variant: cleanup signals the child without testing the handle
KillUnchecked(child) == "killed"

\* faulty variant: cleanup exits without signalling the child
LeaveRunning(child) == child

\* cleanup: if (serverProcess) serverProcess.kill("SIGTERM")
Kill(child) == IF child = "running" THEN "killed" ELSE child

\* SIGINT or SIGTERM: cleanup()
Signal ==
    /\ mode = "dev"
    /\ exitCode = NoExit
    /\ serverProcess' = Kill(serverProcess)
    /\ exitCode' = 0
    /\ UNCHANGED <<call, ret, mode, postsDir, out, pass, writes, cycle, timers,
                   rebuildTimeout, isRebuilding, watching, ready, hist>>

\* the steps of build() passes
PassNext ==
    \/ \E i \in PassIds : BuildSetup(i)
    \/ \E i \in PassIds : BuildGetPostsFails(i)
    \/ \E i \in PassIds : BuildGetPosts(i)
    \/ \E w \in writes, ok \in BOOLEAN : PostWriteDone(w, ok)
    \/ \E w \in writes, ok \in BOOLEAN : LateWriteDone(w, ok)
    \/ \E w \in writes, ok \in BOOLEAN : IndexWriteDone(w, ok)
    \/ \E i \in PassIds : BuildCopyStyles(i)

\* the callbacks dev.ts registers
LoopNext ==
    \/ \E kind \in EventKinds, file \in SrcFiles : SrcEvent(kind, file)
    \/ \E kind \in EventKinds, file \in TemplateFiles : TemplateEvent(kind, file)
    \/ \E kind \in EventKinds, file \in FileUniverse : PostEvent(kind, file)
    \/ \E id \in CycleIds : TimerFire(id)
    \/ \E id \in CycleIds, ok \in BOOLEAN : TscDone(id, ok)
    \/ ServerError
    \/ Signal

Next == PassNext \/ ProcessExit \/ LoopNext

Spec == Init /\ [][Next]_vars

(***************************************************************************)
(* The dev loop together with the watchers' "ready" signals.  dev.ts does  *)
(* not subscribe to "ready", so the signal changes nothing in the program; *)
(* it is followed here to tell the events delivered before a watcher's     *)
(* initial scan is complete from those delivered after it.                 *)
(***************************************************************************)
InitWatch == Init /\ mode = "dev"

NextWatch == PassNext \/ LoopNext \/ \E w \in Watchers : WatcherReady(w)

SpecWatch == InitWatch /\ [][NextWatch]_vars

(***************************************************************************)
(* C2: buildPost leaves no {{title}}, {{date}} or {{content}} token in the *)
(* HTML it writes and puts the substituted value at every place the        *)
(* template had the placeholder, however often the placeholder occurs.     *)
(* (Violated: String.replace with a string pattern replaces only the first *)
(* occurrence.)                                                            *)
(***************************************************************************)
C2_ReplacesAllOccurrences ==
    Built =>
        /\ \A i \in 1..Len(ret.value.html) : ret.value.html[i] \notin Placeholders
        /\ \A i \in 1..Len(call.template) :
              call.template[i] \in Placeholders
                  => ret.value.html[i] = ValueFor(call.post, call.template[i])

(***************************************************************************)
(* C9: filterPostsForIndex returns no post whose draft flag is truthy,     *)
(* returns every occurrence of an input post whose draft flag is falsy or  *)
(* absent exactly once, and never returns more posts than it was given.    *)
(***************************************************************************)
C9_FilterDropsExactlyDrafts ==
    Filtered =>
        /\ \A i \in 1..Len(ret.value) : ~Truthy(ret.value[i].meta.draft)
        /\ \A p \in Range(call.posts) :
              ~Truthy(p.meta.draft) => Count(ret.value, p) = Count(call.posts, p)
        /\ Len(ret.value) <= Len(call.posts)

\* a list with a draft between two published posts has been filtered
C9_Witness ==
    /\ Filtered
    /\ Len(call.posts) = 3
    /\ Truthy(call.posts[2].meta.draft)
    /\ call.posts[1].meta.draft = "undefined"
    /\ call.posts[3].meta.draft = "false"
    /\ Len(ret.value) = 2

C11_SlugStripsFinalExtension ==
    (Parsed /\ EndsWith(call.filename, ".md")) =>
        /\ IsPost(ret.value)
        /\ ret.value.slug = SubSeq(call.filename, 1, Len(call.filename) - 1)

(***************************************************************************)
(* C12: parsePost returns null for every filename that does not end in .md *)
(* and a Post for every filename that does; getPosts returns one Post per  *)
(* .md file of the listing and none for any other file.                    *)
(***************************************************************************)
C12_OnlyMdFilesParse ==
    /\ Parsed =>
          /\ ~EndsWith(call.filename, ".md") => ret.value = Null
          /\ EndsWith(call.filename, ".md") =>
                /\ IsPost(ret.value)
                /\ ret.value.meta = call.content.data
    /\ GotPosts =>
          /\ Len(ret.value) = Cardinality(PostFiles(Range(call.files)))
          /\ \A f \in PostFiles(Range(call.files)) :
                \E k \in 1..Len(ret.value) :
                    /\ ret.value[k].slug = RemoveFirst(f, ".md")
                    /\ ret.value[k].meta = ContentOf(f).data
          /\ \A k \in 1..Len(ret.value) : IsPost(ret.value[k])

\* a name with .md inside but not at its end has been refused
C12_Witness ==
    /\ Parsed
    /\ call.filename = <<"post", ".md", ".txt">>
    /\ ret.value = Null

(***************************************************************************)
(* Process level                                                           *)
(***************************************************************************)
Slug(file) == RemoveFirst(file, ".md")

Published(files) == {f \in PostFiles(files) : ~Truthy(ContentOf(f).data.draft)}

Hrefs(html) == {ArticlesOf(html)[a].href : a \in DOMAIN ArticlesOf(html)}

\* the watcher whose handler made a scheduleRebuild request
WatcherOf(req) ==
    IF req.ts THEN "src"
    ELSE IF EndsWith(req.file, ".md") THEN "posts"
    ELSE "templates"

\* the callback of timer id has run (at least up to its first await)
Fired(id) == cycle[id].pc \in {"tsc", "build", "ok", "buildFailed", "skipped", "tscFailed"}

Executing(id) == cycle[id].pc \in {"tsc", "build"}

\* call id was the last scheduleRebuild call of its burst: no call followed it
\* while its timer was armed
LastOfBurst(id) == id = hist.calls \/ cycle[id + 1].burstStart

(***************************************************************************)
(* C1: when a build() pass resolves, every post file it read (draft or     *)
(* not) has its <slug>.html in the output directory, and index.html lists  *)
(* exactly the posts whose draft flag is not truthy.                       *)
(***************************************************************************)
C1_DraftsBuiltButNotIndexed ==
    [][\A i \in PassIds :
          (pass[i].pc # "resolved" /\ pass'[i].pc = "resolved") =>
              /\ \A f \in PostFiles(pass[i].files) : OutputName(Slug(f)) \in DOMAIN out'
              /\ IndexHtml \in DOMAIN out'
              /\ Hrefs(out'[IndexHtml]) = {OutputName(Slug(f)) : f \in Published(pass[i].files)}
              /\ Len(ArticlesOf(out'[IndexHtml])) = Cardinality(Published(pass[i].files))]_vars

\* a build over a draft and a published post has resolved
C1_Witness ==
    /\ mode = "build"
    /\ pass[0].pc = "resolved"
    /\ postsDir = {HelloMd, WipMd, NotesTxt}
    /\ OutputName(<<"wip">>) \in DOMAIN out
    /\ OutputName(<<"hello">>) \in DOMAIN out
    /\ Hrefs(out[IndexHtml]) = {OutputName(<<"hello">>)}

(***************************************************************************)
(* C3: at most one debounce timer is armed at any time; of the calls of a  *)
(* burst (each arriving while the previous timer is still armed) exactly   *)
(* one gets its callback run, the last one, with that call's trigger file; *)
(* the timers of the others are cancelled.                                 *)
(***************************************************************************)
C3_DebounceCoalesces ==
    /\ Cardinality(timers) <= 1
    /\ \A id \in timers : id = hist.calls /\ id = rebuildTimeout /\ cycle[id].pc = "timer"
    /\ \A id \in 1..hist.calls :
          /\ (Fired(id) \/ id \in timers) <=> LastOfBurst(id)
          /\ cycle[id].pc = "cancelled" <=> ~LastOfBurst(id)
          /\ Executing(id) => cycle[id].req.file # <<>>

\* two calls in one burst: the first timer was cancelled, the second fired
C3_Witness ==
    /\ hist.calls = 2
    /\ cycle[1].pc = "cancelled"
    /\ ~cycle[2].burstStart
    /\ Fired(2)

(***************************************************************************)
(* C4 (as claimed): at most one rebuild cycle -- recompilation step then   *)
(* site regeneration -- is executing at any time.                          *)
(***************************************************************************)
C4_AtMostOneCycleExecuting ==
    Cardinality({id \in CycleIds : Executing(id)}) <= 1

(***************************************************************************)
(* C4 (amended): at most one build() pass is executing at any time in the  *)
(* dev loop; rebuild cycles themselves may overlap (one in its             *)
(* recompilation step while another recompiles or regenerates).            *)
(***************************************************************************)
C4_AtMostOneBuildPass ==
    /\ Cardinality({i \in PassIds : Running(i)}) <= 1
    /\ Cardinality({id \in CycleIds : cycle[id].pc = "build"}) <= 1

\* two cycles are executing, one recompiling while the other one builds
C4_Witness ==
    \E a, b \in CycleIds : cycle[a].pc = "build" /\ Running(a) /\ cycle[b].pc = "tsc"

(***************************************************************************)
(* C5 (as claimed): a cycle whose timer fires while a build is in flight   *)
(* is skipped entirely and starts no build pass.                           *)
(***************************************************************************)
C5_BusyAtFireSkips ==
    \A id \in CycleIds :
        cycle[id].busyAtFire => cycle[id].pc = "skipped" /\ pass[id].pc = "idle"

(***************************************************************************)
(* C5 (amended): a cycle that finds a build in flight when it calls        *)
(* regenerateSite -- when its timer fires for a regeneration-only cycle,   *)
(* when its recompilation has completed for a recompiling cycle -- is      *)
(* skipped: it starts no build pass, issues no write, arms no timer and    *)
(* never runs later.                                                       *)
(***************************************************************************)
C5_BusyAtRegenerateSkips ==
    \A id \in CycleIds :
        (cycle[id].busyAtRegen \/ (cycle[id].busyAtFire /\ ~cycle[id].req.ts)) =>
            /\ cycle[id].pc = "skipped"
            /\ pass[id].pc = "idle"
            /\ id \notin timers
            /\ ~\E w \in writes : w.p = id

\* a timer fired during another cycle's build pass and its cycle was skipped
C5_Witness ==
    \E a, b \in CycleIds :
        /\ Running(a)
        /\ cycle[b].busyAtFire
        /\ cycle[b].busyAtRegen
        /\ cycle[b].pc = "skipped"

(***************************************************************************)
(* C6 (as claimed): the build entry point exits with code 0 when build()   *)
(* succeeds and with a non-zero code when build() fails.                   *)
(***************************************************************************)
C6_ExitCodeTellsFailure ==
    (mode = "build" /\ exitCode # NoExit) => (exitCode = 0 <=> pass[0].pc = "resolved")

(***************************************************************************)
(* C7 (as claimed): build() rejects whenever a post cannot be read or      *)
(* parsed, a template is missing or any write into the output directory    *)
(* fails, the copy of the stylesheet included.                             *)
(***************************************************************************)
C7_EveryFaultRejects ==
    hist.settled.fault # "none" => hist.settled.how = "rejected"

(***************************************************************************)
(* C8: in dev mode a failed initial build ends the process with exit code  *)
(* 1 at once -- no preview server, no watcher, no rebuild scheduled; after *)
(* a successful one the server is spawned exactly once, before any rebuild *)
(* can be scheduled.                                                       *)
(***************************************************************************)
C8_InitialBuildGatesDevLoop ==
    mode = "dev" =>
        /\ pass[0].pc = "rejected" =>
              /\ exitCode = 1
              /\ serverProcess = "null"
              /\ hist.spawned = 0
              /\ ~watching
              /\ hist.calls = 0
              /\ timers = {}
        /\ pass[0].pc = "resolved" => hist.spawned = 1 /\ serverProcess # "null"
        /\ (watching \/ hist.calls > 0 \/ hist.spawned > 0) =>
              pass[0].pc = "resolved" /\ hist.spawned = 1
        /\ exitCode = 1 => pass[0].pc = "rejected"

\* the initial build of a dev session failed
C8_Witness ==
    /\ mode = "dev"
    /\ pass[0].pc = "rejected"
    /\ exitCode = 1

(***************************************************************************)
(* C13 (as claimed): no rebuild is scheduled by a watcher's initial scan,  *)
(* and scheduleRebuild is called only for events of a watcher that has     *)
(* already signalled ready.  (Violated: dev.ts attaches its handlers when  *)
(* the watcher is created, so a change made while the initial scan is      *)
(* still under way schedules a rebuild.)                                   *)
(***************************************************************************)
C13_ScheduledOnlyAfterReady ==
    [][/\ ready' # ready => hist'.calls = hist.calls
       /\ hist'.calls # hist.calls => WatcherOf(cycle'[hist'.calls].req) \in ready]_vars

(***************************************************************************)
(* C14: in every state of the dev loop a SIGINT/SIGTERM can be taken, and  *)
(* the step in which the process exits sets exit code 0, signals the       *)
(* preview-server child and completes nothing else: build passes, writes,  *)
(* rebuild cycles and the debounce timer are left as they were.            *)
(***************************************************************************)
C14_SignalKillsServerAndExits ==
    [][(mode = "dev" /\ watching /\ exitCode = NoExit) =>
          /\ ENABLED Signal
          /\ exitCode' # NoExit =>
                /\ exitCode' = 0
                /\ serverProcess = "running"
                /\ serverProcess' = "killed"
                /\ UNCHANGED <<pass, writes, out, cycle, timers, rebuildTimeout, isRebuilding>>]_vars

\* the process has exited with code 0 while a build pass was in flight, with
\* a write outstanding, and a debounce timer was armed
C14_Witness ==
    /\ exitCode = 0
    /\ serverProcess = "killed"
    /\ timers # {}
    /\ isRebuilding
    /\ \E i \in CycleIds : Running(i) /\ \E w \in writes : w.p = i

(***************************************************************************)
(* C15: a rebuild cycle whose recompilation failed ends there: it starts   *)
(* no build pass and issues no write; the process keeps running, and the   *)
(* loop goes on -- a further watch event can be delivered and schedules a  *)
(* cycle, and an armed timer can fire.                                     *)
(***************************************************************************)
C15_FailedRecompileSkipsRegeneration ==
    \A id \in CycleIds :
        cycle[id].tscFailed =>
            /\ cycle[id].pc = "tscFailed"
            /\ pass[id].pc = "idle"
            /\ ~\E w \in writes : w.p = id
            /\ exitCode \in {NoExit, 0}
            /\ exitCode = NoExit =>
                  /\ watching
                  /\ hist.events < MaxEvents => ENABLED SrcEvent("change", BuildTs)
                  /\ \A t \in timers : ENABLED TimerFire(t)

\* the recompilation of the first cycle failed; a later change started a
\* cycle that recompiled and is now running a build pass
C15_Witness ==
    /\ cycle[1].tscFailed
    /\ cycle[1].pc = "tscFailed"
    /\ cycle[2].req.ts
    /\ cycle[2].pc = "build"
    /\ Running(2)
    /\ exitCode = NoExit

(***************************************************************************)
(* C16: when the build() pass of a scheduled rebuild rejects, the process  *)
(* does not exit and the in-flight flag is cleared in the same step; and   *)
(* once a scheduled pass has failed, a further watch event can still be    *)
(* delivered, and the timer of a regeneration-only cycle that fires while  *)
(* the flag is clear starts a new build() pass.                            *)
(***************************************************************************)
C16_FailedRebuildLeavesLoopRunning ==
    [][/\ \A i \in CycleIds :
             (Running(i) /\ pass'[i].pc = "rejected") =>
                 /\ exitCode' = NoExit
                 /\ ~isRebuilding'
                 /\ cycle'[i].pc = "buildFailed"
                 /\ watching' /\ serverProcess' = "running"
       /\ ((\E i \in CycleIds : cycle[i].pc = "buildFailed") /\ exitCode = NoExit) =>
             /\ hist.events < MaxEvents => ENABLED TemplateEvent("change", PostHtml)
             /\ \A t \in timers :
                   /\ ENABLED TimerFire(t)
                   /\ (t \notin timers' /\ cycle'[t].pc # "cancelled"
                          /\ ~cycle[t].req.ts /\ ~isRebuilding) =>
                         /\ pass'[t].pc = "setup"
                         /\ isRebuilding'
                         /\ cycle'[t].pc = "build"]_vars

\* the pass of the first cycle was rejected; the pass of a later cycle runs
C16_Witness ==
    /\ cycle[1].pc = "buildFailed"
    /\ pass[1].pc = "rejected"
    /\ cycle[2].pc = "build"
    /\ Running(2)
    /\ isRebuilding
    /\ exitCode = NoExit

(***************************************************************************)
(* C17: the dev process ends in two ways only: with exit code 1 in the     *)
(* step in which the initial build is rejected, and with exit code 0 in a  *)
(* SIGINT/SIGTERM step.  No other step -- a rejected rebuild, a failed     *)
(* recompilation, an error of the preview server -- ends it.               *)
(***************************************************************************)
C17_DevExitsOnlyOnInitialFailureOrSignal ==
    [][(mode = "dev" /\ exitCode' # exitCode) =>
          /\ exitCode = NoExit
          /\ \/ exitCode' = 1 /\ Running(0) /\ pass'[0].pc = "rejected"
             \/ exitCode' = 0 /\ Signal]_vars

\* a recompilation and a rebuild have failed and the process is running
C17_Witness ==
    /\ mode = "dev"
    /\ exitCode = NoExit
    /\ serverProcess = "running"
    /\ \E a, b \in CycleIds : cycle[a].pc = "tscFailed" /\ cycle[b].pc = "buildFailed"

\* this step called scheduleRebuild(file, ts): a new timer, the only one armed
Scheduled(file, ts) ==
    /\ hist'.calls = hist.calls + 1
    /\ cycle'[hist'.calls].pc = "timer"
    /\ cycle'[hist'.calls].req = [file |-> file, ts |-> ts]
    /\ timers' = {hist'.calls}
    /\ rebuildTimeout' = hist'.calls

\* this step called scheduleRebuild not at all
NothingScheduled == hist'.calls = hist.calls /\ UNCHANGED <<cycle, timers, rebuildTimeout>>

HasExt(file, exts) == \E x \in exts : EndsWith(file, x)

(***************************************************************************)
(* C18: a change of a .ts file of src/ schedules a cycle that recompiles   *)
(* first and calls regenerateSite only when the recompilation has          *)
(* completed; a change, addition or removal of a .md file of posts/ and a  *)
(* change of a .html or .css file of templates/ schedule a cycle that      *)
(* calls regenerateSite at once, without recompiling; an event for a file  *)
(* with another extension schedules nothing.                               *)
(***************************************************************************)
C18_EventRouting ==
    [][/\ \A kind \in EventKinds :
             /\ \A f \in SrcFiles : SrcEvent(kind, f) =>
                   /\ (kind = "change" /\ HasExt(f, {".ts"})) => Scheduled(f, TRUE)
                   /\ ~HasExt(f, {".ts"}) => NothingScheduled
             /\ \A f \in FileUniverse : PostEvent(kind, f) =>
                   /\ HasExt(f, {".md"}) => Scheduled(f, FALSE)
                   /\ ~HasExt(f, {".md"}) => NothingScheduled
             /\ \A f \in TemplateFiles : TemplateEvent(kind, f) =>
                   /\ (kind = "change" /\ HasExt(f, {".html", ".css"})) => Scheduled(f, FALSE)
                   /\ ~HasExt(f, {".html", ".css"}) => NothingScheduled
       /\ \A id \in CycleIds :
             /\ (cycle[id].pc # "tsc" /\ cycle'[id].pc = "tsc") =>
                   /\ cycle[id].req.ts
                   /\ cycle[id].pc = "timer"
                   /\ pass'[id].pc = "idle"
             /\ (cycle[id].pc \notin {"build", "skipped"} /\ cycle'[id].pc \in {"build", "skipped"}) =>
                   cycle[id].pc = IF cycle[id].req.ts THEN "tsc" ELSE "timer"
             /\ (cycle[id].pc = "timer" /\ id \in timers /\ id \notin timers'
                    /\ cycle'[id].pc # "cancelled") =>
                   cycle'[id].pc \in IF cycle[id].req.ts THEN {"tsc"} ELSE {"build", "skipped"}]_vars

\* of two watch events one scheduled nothing; the other, a .ts change, led
\* to a recompilation and then to a build pass
C18_Witness ==
    /\ hist.events = 2
    /\ hist.calls = 1
    /\ cycle[1].req.ts
    /\ cycle[1].pc = "build"
    /\ ~cycle[1].tscFailed
    /\ Running(1)

(***************************************************************************)
(* C19: while the write of index.html of a build() pass is outstanding --  *)
(* and from the moment it is issued -- no per-post write of that pass is   *)
(* outstanding and every post of the pass has its page in the output       *)
(* directory, whatever the order in which the per-post writes completed.   *)
(***************************************************************************)
C19_PagesBeforeIndex ==
    /\ \A w \in writes :
          w.k = 0 => ~\E v \in writes : v.p = w.p /\ v.k > 0
    /\ \A i \in PassIds :
          pass[i].pc \in {"index", "styles"} =>
              /\ ~\E v \in writes : v.p = i /\ v.k > 0
              /\ \A k \in 1..Len(pass[i].allPosts) :
                    OutputName(pass[i].allPosts[k].slug) \in DOMAIN out

\* the index write of a pass over two posts is outstanding, both pages written
C19_Witness ==
    \E i \in PassIds :
        /\ pass[i].pc = "index"
        /\ Len(pass[i].allPosts) = 2
        /\ \E w \in writes : w.p = i /\ w.k = 0
        /\ \A k \in 1..2 : OutputName(pass[i].allPosts[k].slug) \in DOMAIN out

(***************************************************************************)
(* C20 (as claimed): in dev mode the writes outstanding at any time were   *)
(* all issued by one build() pass.  (Violated: Promise.all rejects at the  *)
(* first failed write while the other writes of the pass are still         *)
(* outstanding; regenerateSite clears the flag, and the next pass issues   *)
(* its writes beside them.)                                                *)
(***************************************************************************)
C20_WritesOfOnePassOnly ==
    mode = "dev" => \A v, w \in writes : v.p = w.p

\* the pages of the output directory (every file but index.html, styles.css)
Pages(o) == DOMAIN o \ {IndexHtml, StylesCss}

(***************************************************************************)
(* C21: when templates/styles.css does not exist, build() resolves: the    *)
(* step in which copyStyles finds no stylesheet settles the pass as        *)
(* resolved, with the page of every post of the pass and index.html in the *)
(* output directory, and writes nothing -- no styles.css in particular.    *)
(***************************************************************************)
C21_AbsentStylesheetIsNoError ==
    [][\A i \in PassIds :
          (pass[i].pc = "styles" /\ pass'[i].pc # "styles"
             /\ hist'.settled.styles = "absent") =>
              /\ pass'[i].pc = "resolved"
              /\ hist'.settled.fault = "none"
              /\ out' = out
              /\ writes' = writes
              /\ IndexHtml \in DOMAIN out'
              /\ \A k \in 1..Len(pass[i].allPosts) :
                    OutputName(pass[i].allPosts[k].slug) \in DOMAIN out'
              /\ (i = 0 /\ mode = "build") => StylesCss \notin DOMAIN out']_vars

\* a build over two posts has resolved without a stylesheet
C21_Witness ==
    /\ mode = "build"
    /\ pass[0].pc = "resolved"
    /\ hist.settled.styles = "absent"
    /\ Pages(out) = {OutputName(<<"hello">>), OutputName(<<"wip">>)}
    /\ IndexHtml \in DOMAIN out
    /\ StylesCss \notin DOMAIN out

\* the plain-text tokens of a page
TextOf(html) == {html[t].text : t \in {u \in 1..Len(html) : "text" \in DOMAIN html[u]}}

\* C22: a post whose frontmatter has neither title nor date does not fail the
\* build.  getPosts returns it with both fields absent, a pass fails only on
\* an I/O or parse fault, and a pass that resolves has written the post's
\* page and the index entry with the absent values propagated: the title
\* reads "undefined" and the date "Invalid Date".
C22_AbsentFieldsPropagate ==
    [][\A i \in PassIds :
          /\ (pass[i].pc # "rejected" /\ pass'[i].pc = "rejected") => hist'.settled.fault # "none"
          /\ \A k \in 1..Len(pass'[i].allPosts) :
                pass'[i].allPosts[k].slug = <<"untitled">> =>
                    /\ pass'[i].allPosts[k].meta.title = "undefined"
                    /\ pass'[i].allPosts[k].meta.date = NoDate
          /\ (pass[i].pc = "styles" /\ pass'[i].pc = "resolved" /\ UntitledMd \in pass[i].files) =>
                /\ OutputName(<<"untitled">>) \in DOMAIN out'
                /\ {"undefined", "Invalid Date"} \subseteq TextOf(out'[OutputName(<<"untitled">>)])
                /\ IndexHtml \in DOMAIN out'
                /\ \E k \in DOMAIN ArticlesOf(out'[IndexHtml]) :
                      LET a == ArticlesOf(out'[IndexHtml])[k]
                      IN  /\ a.href = OutputName(<<"untitled">>)
                          /\ a.title = "undefined"
                          /\ a.datetime = NoDate
                          /\ a.time = "Invalid Date"]_vars

\* a build over a post without title and date has resolved and exited with 0
C22_Witness ==
    /\ mode = "build"
    /\ UntitledMd \in postsDir
    /\ pass[0].pc = "resolved"
    /\ exitCode = 0
    /\ OutputName(<<"untitled">>) \in DOMAIN out
    /\ "Invalid Date" \in TextOf(out[OutputName(<<"untitled">>)])
    /\ Len(ArticlesOf(out[IndexHtml])) = 2

\* a build() pass started by regenerateSite is executing
RebuildExecuting == \E i \in CycleIds : Running(i)

\* C23: isRebuilding is true exactly while a build() pass started by
\* regenerateSite is executing.  It rises only in the step in which
\* regenerateSite starts a pass and falls in the step in which that pass
\* ends, resolved or rejected, so it never stays stuck at true.
C23_FlagTracksRunningRebuild ==
    [][/\ isRebuilding <=> RebuildExecuting
       /\ isRebuilding' <=> RebuildExecuting'
       /\ (~isRebuilding /\ isRebuilding') =>
             \E i \in CycleIds : /\ pass[i].pc = "idle" /\ pass'[i].pc = "setup"
                                 /\ cycle'[i].pc = "build"
       /\ (isRebuilding /\ ~isRebuilding') =>
             \E i \in CycleIds : Running(i) /\ pass'[i].pc \in {"resolved", "rejected"}]_vars

\* a rebuild has failed, the flag was cleared, and a later rebuild has run
C23_Witness ==
    /\ ~isRebuilding
    /\ \E i, j \in CycleIds : i < j /\ pass[i].pc = "rejected" /\ pass[j].pc = "resolved"

\* the dev loop has nothing left to do: no timer is armed and no cycle is
\* waiting for tsc or for build()
Quiescent ==
    /\ mode = "dev"
    /\ exitCode = NoExit
    /\ timers = {}
    /\ \A id \in CycleIds : cycle[id].pc \notin {"timer", "tsc", "build"}

\* cycle id has been scheduled by a watch event
Requested(id) == cycle[id].pc # "none"

\* the timer of cycle id has fired and its callback has started tsc
Recompiled(id) == cycle[id].req.ts /\ cycle[id].pc \notin {"none", "timer", "cancelled"}

(***************************************************************************)
(* C24 (as claimed): every .ts change observed by the dev loop is followed *)
(* by a recompilation that starts after it; once the loop has come to rest *)
(* with every timer fired, each .ts request has been recompiled by its own *)
(* cycle or by a later one.  (Violated: a posts or templates change inside *)
(* the debounce window clears the timer of the .ts request and arms one    *)
(* whose callback does not recompile.)                                     *)
(***************************************************************************)
C24_TsChangeRecompiled ==
    Quiescent =>
        \A id \in CycleIds :
            (Requested(id) /\ cycle[id].req.ts) =>
                \E j \in CycleIds : j >= id /\ Recompiled(j)

(***************************************************************************)
(* C25 (as claimed): every post or template change observed by the dev     *)
(* loop is followed by a build() pass that starts after it; once the loop  *)
(* has come to rest, with no recompilation failed, each such request has   *)
(* had a pass started by its own cycle or by a later one.  (Violated: a    *)
(* cycle whose timer fires while build() is in flight is skipped and never *)
(* retried.)                                                               *)
(***************************************************************************)
C25_ChangeRebuilt ==
    (Quiescent /\ \A c \in CycleIds : ~cycle[c].tscFailed) =>
        \A id \in CycleIds :
            (Requested(id) /\ ~cycle[id].req.ts) =>
                \E j \in CycleIds : j >= id /\ pass[j].pc # "idle"

\* the per-post pages build() writes for the files of a directory listing
PagesFor(files) == {OutputName(Slug(f)) : f \in PostFiles(files)} \ {IndexHtml, StylesCss}

(***************************************************************************)
(* C26 (as claimed): while every build() pass so far has succeeded, a pass *)
(* that resolves leaves in the output directory exactly the pages of the   *)
(* post files it found, whatever was added or removed before it.           *)
(* (Violated: build() only writes; the page of a removed post stays.)      *)
(***************************************************************************)
C26_PagesMatchPosts ==
    [][\A i \in PassIds :
          (/\ pass[i].pc = "styles" /\ pass'[i].pc = "resolved"
           /\ \A j \in PassIds : pass'[j].pc # "rejected") =>
              Pages(out') = PagesFor(pass[i].files)]_vars

(***************************************************************************)
(* C27 (as claimed): when build() resolves, the output directory holds for *)
(* every post its rendered page under <slug>.html, and index.html holds    *)
(* the index listing, whatever the posts are named.  (Violated: the page   *)
(* of a post named index.md is written to index.html and then overwritten  *)
(* by buildIndex.)                                                         *)
(***************************************************************************)
C27_EveryPageAndTheIndex ==
    [][\A i \in PassIds :
          (pass[i].pc = "styles" /\ pass'[i].pc = "resolved") =>
              /\ IndexHtml \in DOMAIN out'
              /\ out'[IndexHtml] = RenderIndex(PostsToIndex(pass[i].allPosts), IndexTemplate)
              /\ \A k \in 1..Len(pass[i].allPosts) :
                    LET post == pass[i].allPosts[k]
                    IN  /\ OutputName(post.slug) \in DOMAIN out'
                        /\ out'[OutputName(post.slug)] = Written(RenderPost(post, PostTemplate))]_vars

\* the faults getPosts can meet
GetPostsFaults == {"readdir", "readFile", "parse"}

\* C28: a build() pass in which reading the posts directory, reading a post
\* or parsing a post fails writes nothing.  A pass issues no write before
\* getPosts has returned; if getPosts fails the pass rejects in that step,
\* with the output directory and the outstanding writes unchanged; only a
\* pass that has read and parsed every post file goes on; and every write
\* issued, every file written and every stylesheet copied is the work of a
\* pass that went on.
C28_FailedGetPostsWritesNothing ==
    [][\A i \in PassIds :
          /\ pass[i].pc \in {"idle", "setup", "getPosts"} => ~\E w \in writes : w.p = i
          /\ (pass[i].pc = "getPosts" /\ pass'[i].pc = "rejected") =>
                /\ hist'.settled.fault \in GetPostsFaults
                /\ out' = out
                /\ writes' = writes
          /\ (pass[i].pc # "rejected" /\ pass'[i].pc = "rejected"
              /\ hist'.settled.fault \in GetPostsFaults) => pass[i].pc = "getPosts"
          /\ (pass[i].pc = "getPosts" /\ pass'[i].pc \notin {"getPosts", "rejected"}) =>
                /\ pass'[i].pc \in {"posts", "index"}
                /\ pass'[i].files = postsDir
                /\ Len(pass'[i].allPosts) = Cardinality(PostFiles(postsDir))
          /\ (\E w \in writes' \ writes : w.p = i) =>
                pass'[i].pc \in {"posts", "index"} /\ pass[i].pc \in {"getPosts", "posts"}
          /\ out' # out =>
                \/ \E w \in writes \ writes' : out' = Put(out, w.file, w.html)
                \/ \E j \in PassIds : pass[j].pc = "styles" /\ pass'[j].pc = "resolved"
          /\ pass'[i].pc = "styles" => pass[i].pc \in {"index", "styles"}
          /\ pass'[i].pc = "index" => pass[i].pc \in {"getPosts", "posts", "index"}]_vars

\* a one-shot build has failed on a post that does not parse, and the output
\* directory is as empty as before
C28_Witness ==
    /\ mode = "build"
    /\ pass[0].pc = "rejected"
    /\ hist.settled.fault = "parse"
    /\ out = <<>>
    /\ writes = {}
    /\ exitCode = 0

\* C29: a signal that arrives during the initial build, before the preview
\* server has been spawned, exits with code 0 and signals no child.  A child
\* is signalled only in a step that finds it spawned, and no child is
\* spawned once the process has exited.
C29_SignalBeforeSpawn ==
    [][/\ Signal =>
             /\ exitCode' = 0
             /\ hist'.spawned = hist.spawned
             /\ serverProcess = "null" => (serverProcess' = "null" /\ hist.spawned = 0)
             /\ serverProcess' = "killed" => (serverProcess = "running" /\ hist.spawned = 1)
       /\ (mode = "dev" /\ Running(0)) => (serverProcess = "null" /\ ENABLED Signal)
       /\ (serverProcess # "killed" /\ serverProcess' = "killed") => Signal
       /\ exitCode # NoExit => (hist'.spawned = hist.spawned /\ serverProcess' = serverProcess)
       /\ hist'.spawned > hist.spawned => (exitCode' = NoExit /\ serverProcess' = "running")]_vars

\* the process has exited with 0 on a signal during the initial build, and
\* there is no child
C29_Witness ==
    /\ mode = "dev"
    /\ Running(0)
    /\ exitCode = 0
    /\ serverProcess = "null"
    /\ hist.spawned = 0

====
